---- MODULE Spec2Model ----
(***************************************************************************)
(* A model of lyzltalent/autoPlant: the two unattended browser programs    *)
(* autoMowan.py (the clean/brick scheduler_loop) and autoPlant.py (the     *)
(* farm cycle loop_smart / loop_fixed).                                    *)
(*                                                                         *)
(* The specifications of this module:                                      *)
(*   SpecNormalize  the pure Wait Normalizer, _normalize_wait              *)
(*   SpecOpen       open_target, the navigation retry loop of both files   *)
(*   Spec           a whole process: scheduler_loop of autoMowan.py or     *)
(*                  the loop of autoPlant.py, with its sessions            *)
(*   SpecParse      the pure parse_countdown_text (autoMowan.py)           *)
(*   SpecClean      one cleaning session of autoMowan.py: run_loop with    *)
(*                  click_drops, the final reads and the close             *)
(*   SpecCleanLive  SpecClean with the session's thread always going on    *)
(*   SpecHarvest    one call of harvest_mature_plots (autoPlant.py)        *)
(*   SpecSow        two calls of plant_on_all_empty_slots (autoPlant.py)   *)
(* Time is in whole seconds except in SpecOpen, which counts ticks of      *)
(* 1/10000 s so that the backoff products 1.8^k are exact.                 *)
(***************************************************************************)
EXTENDS Integers, Sequences, FiniteSets, TLC

VARIABLES
    \* ---- SpecNormalize: one call of _normalize_wait
    nw_pc,          \* "off" | "call" | "done"
    nw_seconds,     \* the argument seconds (None or an int)
    nw_fallback,    \* the argument fallback
    nw_result,      \* the returned wait
    \* ---- SpecOpen: one call of open_target
    ot_pc,          \* "off" | "goto" | "returned"
    ot_program,     \* which file's open_target runs
    ot_backoff,     \* the local backoff, in ticks
    ot_sleeps,      \* the time.sleep durations issued so far, in ticks
    ot_loaded,      \* whether a page.goto has succeeded
    ot_clock,       \* ticks elapsed since the call
    \* ---- Spec: one process
    program,        \* "autoMowan" | "autoPlant" | "none"
    pc,             \* where the process's loop stands
    sp,             \* where the running session stands, "none" outside one
    clock,          \* time.time(), in seconds
    browsers,       \* the number of browser instances now open
    exc,            \* the exception raised by the last session, or "none"
    \* autoMowan.py: the configuration read from the environment
    STATUS_RECHECK_INTERVAL_SEC,
    BRICK_RECHECK_INTERVAL_SEC,
    DEFAULT_NEXT_INTERVAL_SEC,
    BRICK_DEFAULT_INTERVAL_SEC,
    \* autoMowan.py: scheduler_loop's locals
    now,            \* now = time.time() of the current iteration
    task,           \* "clean" | "brick"
    next_clean_at,  \* None before line 386 has run
    next_brick_at,
    clean_seconds,  \* the clean countdown read since the last comparison
    brick_seconds,  \* the brick countdown read since the last comparison
    \* history variables, read by the properties only
    due_first,      \* the task chosen while its recheck interval exceeded the
                    \* other task's distance, until a session starts
    pending,        \* the task left waiting when both were due, until the
                    \* next comparison
    ended_at,       \* the time the last session of each task returned, None
                    \* before the first
    \* ---- SpecParse: one call of parse_countdown_text
    pt_pc,          \* "off" | "call" | "done"
    pt_text,        \* the argument text
    pt_result,      \* the returned seconds, or None
    \* ---- SpecClean: one cleaning session, from run_loop on
    cs_pc,          \* "off" | "button" | "drops_count" | "drop" | "wait" |
                    \* "check" | "read_own" | "read_sibling" | "close" |
                    \* "returned" | "crashed"
    max_runtime_sec,\* run_loop's max_runtime_sec (CLEAN_SESSION_SEC)
    cs_elapsed,     \* time.time() - start
    cs_list,        \* the drop items of #beachArea, in document order
    cs_count,       \* click_drops's count
    cs_i,           \* click_drops's i
    cs_target,      \* history: the item the last pass of the drain clicked
    cs_failed,      \* history: the item whose click failed in the last pass
    cs_done,        \* history: the executors this pass of run_loop has run
    cs_reads,       \* history: the final countdown reads performed
    cs_closed,      \* history: browser.close() has been called
    \* ---- SpecHarvest: one call of harvest_mature_plots
    hv_pc,          \* "off" | "count" | "scan" | "click" | "idle" |
                    \* "returned" | "raised"
    hv_page,        \* the plots of the page, in document order
    hv_page0,       \* history: the page when the call started
    hv_clock,       \* int(time.time())
    hv_start,       \* history: the clock when the call started
    hv_n,           \* n = planted.count()
    hv_i,           \* the index of the running for loop
    hv_mature,      \* mature_selectors (a plot's key is its position)
    hv_attempts,    \* history: the clicks attempted on each plot
    hv_failed,      \* history: the plots whose click raised
    hv_ret,         \* the value returned
    \* ---- SpecSow: two calls of plant_on_all_empty_slots
    so_pc,          \* "off" | "count" | "seed" | "seed_click" | "slot" |
                    \* "idle" | "returned" | "raised"
    so_call,        \* 1 or 2: the call that runs
    so_page,        \* the class of each plot of the page
    so_start,       \* history: the page when the running call started
    so_seeds,       \* whether an unlocked preferred / fallback card exists
    so_keys,        \* empty_keys (a plot's key is its position)
    so_i,           \* the index of the for loop
    so_which,       \* the seed picked: "preferred" | "fallback" | "none"
    so_seed,        \* history: the seed click, "untried" | "ok" | "failed"
    planted_ok,     \* planted_ok
    so_turns,       \* history: what the loop did at each plot's turn
    so_sight,       \* history: the class of each plot at its turn
    so_ret,         \* the value returned by the running call
    so_first,       \* history: the first call, once it has returned
    \* ---- Spec, autoPlant.py
    next_ts,        \* run_once's next_ts
    wait_sec,       \* loop_smart's wait_sec
    now_ms          \* run_once's now_ms = int(time.time() * 1000)

normVars == <<nw_pc, nw_seconds, nw_fallback, nw_result>>
openVars == <<ot_pc, ot_program, ot_backoff, ot_sleeps, ot_loaded, ot_clock>>
procVars == <<program, pc, sp, clock, browsers, exc>>
confVars == <<STATUS_RECHECK_INTERVAL_SEC, BRICK_RECHECK_INTERVAL_SEC,
              DEFAULT_NEXT_INTERVAL_SEC, BRICK_DEFAULT_INTERVAL_SEC>>
schedVars == <<now, task, next_clean_at, next_brick_at, clean_seconds,
               brick_seconds, due_first, pending, ended_at>>
plantVars == <<next_ts, wait_sec, now_ms>>
mainVars == <<procVars, confVars, schedVars, plantVars>>
harvVars == <<hv_pc, hv_page, hv_page0, hv_clock, hv_start, hv_n, hv_i,
              hv_mature, hv_attempts, hv_failed, hv_ret>>
\* The variables of the specifications of single functions.
parseVars == <<pt_pc, pt_text, pt_result>>
sowVars == <<so_pc, so_call, so_page, so_start, so_seeds, so_keys, so_i,
             so_which, so_seed, planted_ok, so_turns, so_sight, so_ret,
             so_first>>
cleanVars == <<cs_pc, max_runtime_sec, cs_elapsed, cs_list, cs_count, cs_i,
               cs_target, cs_failed, cs_done, cs_reads, cs_closed>>
auxVars == <<normVars, openVars, parseVars, harvVars, sowVars, cleanVars>>
vars == <<auxVars, mainVars>>

Max(a, b) == IF a >= b THEN a ELSE b
Min(a, b) == IF a <= b THEN a ELSE b

\* Python's None for an "int | None" countdown; every known countdown is >= 0.
None == -1

(***************************************************************************)
(* autoMowan.py: constants                                                 *)
(***************************************************************************)
MIN_WAIT_AFTER_CHECK_SEC == 30

(***************************************************************************)
(* autoMowan.py: _normalize_wait (the Wait Normalizer)                     *)
(***************************************************************************)
\* A slip that tests truthiness (if not seconds) and so takes 0 for None.
normalize_wait_falsy(seconds, fallback) ==
    LET s1 == IF seconds = None \/ seconds = 0 THEN fallback ELSE seconds
    IN  Max(s1, MIN_WAIT_AFTER_CHECK_SEC)

\* A slip that substitutes the fallback after the clamp instead of before it.
normalize_wait_unclamped(seconds, fallback) ==
    IF seconds = None THEN fallback ELSE Max(seconds, MIN_WAIT_AFTER_CHECK_SEC)

_normalize_wait(seconds, fallback) ==
    LET s1 == IF seconds = None THEN fallback ELSE seconds
    IN  Max(s1, MIN_WAIT_AFTER_CHECK_SEC)

\* Bounds of the inputs tried in SpecNormalize.
MaxSeconds == 40
MaxFallback == 40

NormOff == nw_pc = "off" /\ nw_seconds = 0 /\ nw_fallback = 0 /\ nw_result = 0

NormInit ==
    /\ nw_pc = "call"
    /\ nw_seconds \in {None} \cup (0..MaxSeconds)
    /\ nw_fallback \in 0..MaxFallback
    /\ nw_result = 0

NormCall ==
    /\ nw_pc = "call"
    /\ nw_result' = _normalize_wait(nw_seconds, nw_fallback)
    /\ nw_pc' = "done"
    /\ UNCHANGED <<nw_seconds, nw_fallback>>

(***************************************************************************)
(* open_target (autoMowan.py and autoPlant.py hold the same loop)          *)
(***************************************************************************)
TicksPerSec == 10 * 10 * 10 * 10
GOTO_TIMEOUT_SEC == 45
BACKOFF_CAP_SEC == 10

\* The bound on the failed loads tried in SpecOpen (the code has none).
MaxRetries == 6

\* A slip that leaves out the cap.
NextBackoffNoCap(backoff) == (backoff * 18) \div 10

\* backoff = min(backoff * 1.8, 10)
NextBackoff(backoff) == Min((backoff * 18) \div 10, BACKOFF_CAP_SEC * TicksPerSec)

OpenOff ==
    /\ ot_pc = "off" /\ ot_program = "none" /\ ot_backoff = 0
    /\ ot_sleeps = <<>> /\ ot_loaded = FALSE /\ ot_clock = 0

\* backoff = 1.0, then the first pass of "while True"
OpenInit ==
    /\ ot_pc = "goto"
    /\ ot_program \in {"autoMowan", "autoPlant"}
    /\ ot_backoff = TicksPerSec
    /\ ot_sleeps = <<>>
    /\ ot_loaded = FALSE
    /\ ot_clock = 0

\* page.goto(...) returns: return
OtGotoOk ==
    /\ ot_pc = "goto"
    /\ \E d \in {0, 1, GOTO_TIMEOUT_SEC - 1} :
          ot_clock' = ot_clock + d * TicksPerSec
    /\ ot_loaded' = TRUE
    /\ ot_pc' = "returned"
    /\ UNCHANGED <<ot_program, ot_backoff, ot_sleeps>>

\* page.goto(...) raises (at once, or on its 45 s timeout): log, sleep, grow
OtGotoFail ==
    /\ ot_pc = "goto"
    /\ Len(ot_sleeps) < MaxRetries
    /\ \E d \in {0, GOTO_TIMEOUT_SEC} :
          ot_clock' = ot_clock + d * TicksPerSec + ot_backoff
    /\ ot_sleeps' = Append(ot_sleeps, ot_backoff)
    /\ ot_backoff' = NextBackoff(ot_backoff)
    /\ UNCHANGED <<ot_pc, ot_program, ot_loaded>>

(***************************************************************************)
(* The process (Spec): the inputs the environment supplies                 *)
(***************************************************************************)
\* The horizon of time.time(): no step takes the clock past it.
MaxClock == 160

\* Countdowns a page can show: unknown, zero, and durations around the floor
\* and the recheck intervals.
Readings == {None, 0, 40, 80}

\* Seconds a page load (new_context .. wait_for_selector) can take.
LoadDurations == {10}
\* Seconds a session's executors (run_loop, the brick clicks) can take.
ActDurations == {10, 20}

\* Seconds time.sleep can overrun its argument ("the suspension time may be
\* longer than requested").
SleepOverruns == {0, 10}

\* The values tried for the four MOWAN_*_SEC environment variables (the
\* shipped defaults 3600, 21600, 7200 and 86400 lie beyond MaxClock; the
\* values keep their order, and add an interval of 0 and a default under the
\* floor).
StatusRecheckChoices == {0, 40}
BrickRecheckChoices == {0, 60}
DefaultNextChoices == {20, 50}
BrickDefaultChoices == {20, 90}

\* Leaving "with sync_playwright() as p:" stops the driver, which ends every
\* browser it launched, also when the block is left by an exception.
\* (A start() without the with block would leave them running.)
PlaywrightStartNoWith(b) == b

PlaywrightExit(b) == 0

(***************************************************************************)
(* autoMowan.py: scheduler_loop and its four sessions                      *)
(***************************************************************************)
Other(t) == IF t = "clean" THEN "brick" ELSE "clean"

\* A slip that reads ">=" for "<=": the later task is taken.
SelectTaskLatest(nc, nb) == IF nc >= nb THEN "clean" ELSE "brick"

\* if next_clean_at <= next_brick_at: task = "clean" else: task = "brick"
SelectTask(nc, nb) == IF nc <= nb THEN "clean" ELSE "brick"

DueOf(t) == IF t = "clean" THEN next_clean_at ELSE next_brick_at

\* remaining = next_<task>_at - now
Remaining == DueOf(task) - now

\* recheck_interval = STATUS_... if task == "clean" else BRICK_...
RecheckInterval(t) ==
    IF t = "clean" THEN STATUS_RECHECK_INTERVAL_SEC ELSE BRICK_RECHECK_INTERVAL_SEC

\* A slip that passes the clean default to every probe and session.
FallbackOfCleanOnly(t) == DEFAULT_NEXT_INTERVAL_SEC

\* normalize_wait_seconds uses DEFAULT_NEXT_INTERVAL_SEC; the brick calls pass
\* BRICK_DEFAULT_INTERVAL_SEC.
FallbackOf(t) ==
    IF t = "clean" THEN DEFAULT_NEXT_INTERVAL_SEC ELSE BRICK_DEFAULT_INTERVAL_SEC

ReadingOf(t) == IF t = "clean" THEN clean_seconds ELSE brick_seconds

\* The wait a probe or session returns for its own task.
OwnWait(t) == _normalize_wait(ReadingOf(t), FallbackOf(t))

\* A slip that drops the sibling's reading: its due time is never rewritten.
SiblingWaitNever(t) == None

\* A slip that rechecks the sibling's countdown instead of the active task's.
RecheckPcSibling(t) == IF t = "clean" THEN "recheck_brick" ELSE "recheck_clean"

\* A slip that normalizes the sibling's reading unconditionally.
SiblingWaitAlways(t) == _normalize_wait(ReadingOf(t), FallbackOf(t))

\* brick_wait = _normalize_wait(...) if brick_seconds is not None else None
SiblingWait(t) ==
    IF ReadingOf(t) # None THEN _normalize_wait(ReadingOf(t), FallbackOf(t))
    ELSE None

\* A slip that reuses the iteration's now instead of calling time.time().
DueAtStale(wait) == now + wait

\* next_..._at = time.time() + wait
DueAt(wait) == clock + wait

FetchPcs == {"init_clean", "init_brick", "recheck_clean", "recheck_brick"}
RunPcs == {"run_clean", "run_brick"}
RunPc(t) == IF t = "clean" THEN "run_clean" ELSE "run_brick"
RecheckPc(t) == IF t = "clean" THEN "recheck_clean" ELSE "recheck_brick"

\* The task whose countdown the session at pc is about.
KindOf(p) ==
    IF p \in {"init_clean", "recheck_clean", "run_clean"} THEN "clean" ELSE "brick"

\* Where scheduler_loop continues when the session at pc returns.
AfterSession(p) ==
    CASE p = "init_clean" -> "init_brick"
      [] p = "init_brick" -> "init_write"
      [] p = "run_clean" -> "post_clean"
      [] p = "run_brick" -> "post_brick"
      [] p = "recheck_clean" -> "post_recheck_clean"
      [] OTHER -> "post_recheck_brick"

Mowan == program = "autoMowan"

\* Neither run_cleaning_session nor run_brick_session has returned yet.
NoSessionYet == [t \in {"clean", "brick"} |-> None]

PlantOff == next_ts = 0 /\ wait_sec = 0 /\ now_ms = 0

MowanInit ==
    /\ program = "autoMowan"
    /\ pc = "init_clean" /\ sp = "none"
    /\ clock = 0 /\ browsers = 0 /\ exc = "none"
    /\ STATUS_RECHECK_INTERVAL_SEC \in StatusRecheckChoices
    /\ BRICK_RECHECK_INTERVAL_SEC \in BrickRecheckChoices
    /\ DEFAULT_NEXT_INTERVAL_SEC \in DefaultNextChoices
    /\ BRICK_DEFAULT_INTERVAL_SEC \in BrickDefaultChoices
    /\ now = 0 /\ task = "clean"
    /\ next_clean_at = None /\ next_brick_at = None
    /\ clean_seconds = None /\ brick_seconds = None
    /\ due_first = "none" /\ pending = "none"
    /\ ended_at = NoSessionYet
    /\ PlantOff

\* open_page_session: playwright_obj.chromium.launch(...)
M_Launch ==
    /\ Mowan /\ pc \in FetchPcs \cup RunPcs /\ sp = "none"
    /\ browsers' = browsers + 1
    /\ sp' = "launched"
    /\ due_first' = IF pc \in RunPcs THEN "none" ELSE due_first
    /\ UNCHANGED <<auxVars, program, pc, clock, exc, confVars, now, task, next_clean_at,
                   next_brick_at, clean_seconds, brick_seconds, pending,
                   ended_at, plantVars>>

\* build_storage_state: ensure_cookie_value returns a cookie
M_StorageOk ==
    /\ Mowan /\ sp = "launched"
    /\ sp' = "context"
    /\ UNCHANGED <<auxVars, program, pc, clock, browsers, exc, confVars, schedVars,
                   plantVars>>

\* build_storage_state: ensure_cookie_value raises RuntimeError; nothing in
\* autoMowan.py catches it, so the with block is left and the process ends.
M_StorageFail ==
    /\ Mowan /\ sp = "launched"
    /\ exc' = "RuntimeError"
    /\ browsers' = PlaywrightExit(browsers)
    /\ sp' = "none" /\ pc' = "terminated"
    /\ UNCHANGED <<auxVars, program, clock, confVars, schedVars, plantVars>>

\* new_context, new_page, open_target, wait_for_selector(SEL_BEACH_AREA)
M_Open ==
    /\ Mowan /\ sp = "context"
    /\ \E d \in LoadDurations :
          /\ clock + d <= MaxClock
          /\ clock' = clock + d
    /\ sp' = "page"
    /\ UNCHANGED <<auxVars, program, pc, browsers, exc, confVars, schedVars, plantVars>>

\* run_loop(page, max_runtime_sec=CLEAN_SESSION_SEC), or
\* wait_for_brick_factory_ready and click_brick_factory
M_Act ==
    /\ Mowan /\ pc \in RunPcs /\ sp = "page"
    /\ \E d \in ActDurations :
          /\ clock + d <= MaxClock
          /\ clock' = clock + d
    /\ sp' = "acted"
    /\ UNCHANGED <<auxVars, program, pc, browsers, exc, confVars, schedVars, plantVars>>

\* A page operation outside every try (new_context, btn.count(),
\* page.wait_for_timeout, a non-timeout error of wait_for) raises: the with
\* block is left and, scheduler_loop catching nothing, the process ends.
M_Raise ==
    /\ Mowan /\ sp \in {"context", "page"}
    /\ exc' = "Error"
    /\ browsers' = PlaywrightExit(browsers)
    /\ sp' = "none" /\ pc' = "terminated"
    /\ UNCHANGED <<auxVars, program, clock, confVars, schedVars, plantVars>>

\* read_countdown_seconds / read_brick_countdown_seconds: a probe reads its
\* own countdown, a session its own and then its sibling's.  A locator
\* timeout or an unparsable text is None.
M_Read ==
    /\ Mowan
    /\ \/ pc \in FetchPcs /\ sp = "page"
       \/ pc \in RunPcs /\ sp = "acted"
    /\ \E own \in Readings, sib \in Readings :
          /\ clean_seconds' =
                IF KindOf(pc) = "clean" THEN own
                ELSE IF pc \in RunPcs THEN sib ELSE clean_seconds
          /\ brick_seconds' =
                IF KindOf(pc) = "brick" THEN own
                ELSE IF pc \in RunPcs THEN sib ELSE brick_seconds
    /\ sp' = "read"
    /\ UNCHANGED <<auxVars, program, pc, clock, browsers, exc, confVars, now, task,
                   next_clean_at, next_brick_at, due_first, pending, ended_at,
                   plantVars>>

\* browser.close(), the end of the with block, and the return
M_Close ==
    /\ Mowan /\ sp = "read"
    /\ browsers' = PlaywrightExit(browsers - 1)
    /\ sp' = "none"
    /\ pc' = AfterSession(pc)
    /\ ended_at' = IF pc \in RunPcs
                   THEN [ended_at EXCEPT ![KindOf(pc)] = clock]
                   ELSE ended_at
    /\ UNCHANGED <<auxVars, program, clock, exc, confVars, now, task, next_clean_at,
                   next_brick_at, clean_seconds, brick_seconds, due_first,
                   pending, plantVars>>

\* next_clean_at = time.time() + clean_wait
\* next_brick_at = time.time() + brick_wait
M_InitWrite ==
    /\ Mowan /\ pc = "init_write"
    /\ next_clean_at' = DueAt(OwnWait("clean"))
    /\ next_brick_at' = DueAt(OwnWait("brick"))
    /\ pc' = "loop"
    /\ UNCHANGED <<auxVars, program, sp, clock, browsers, exc, confVars, now, task,
                   clean_seconds, brick_seconds, due_first, pending, ended_at,
                   plantVars>>

\* clean_wait, maybe_brick = run_cleaning_session(); the two assignments
\* (and the mirror image after run_brick_session); continue
M_PostRun ==
    /\ Mowan /\ pc \in {"post_clean", "post_brick"}
    /\ LET own == IF pc = "post_clean" THEN "clean" ELSE "brick"
           maybe == SiblingWait(Other(own))
           ownDue == DueAt(OwnWait(own))
           sibDue == IF maybe # None THEN DueAt(maybe) ELSE DueOf(Other(own))
       IN  /\ next_clean_at' = IF own = "clean" THEN ownDue ELSE sibDue
           /\ next_brick_at' = IF own = "brick" THEN ownDue ELSE sibDue
    /\ pc' = "loop"
    /\ UNCHANGED <<auxVars, program, sp, clock, browsers, exc, confVars, now, task,
                   clean_seconds, brick_seconds, due_first, pending, ended_at,
                   plantVars>>

\* clean_wait = fetch_countdown_wait("hourly recheck");
\* next_clean_at = time.time() + clean_wait (and the same for brick)
M_PostRecheck ==
    /\ Mowan /\ pc \in {"post_recheck_clean", "post_recheck_brick"}
    /\ LET own == IF pc = "post_recheck_clean" THEN "clean" ELSE "brick"
       IN  /\ next_clean_at' =
                 IF own = "clean" THEN DueAt(OwnWait(own)) ELSE next_clean_at
           /\ next_brick_at' =
                 IF own = "brick" THEN DueAt(OwnWait(own)) ELSE next_brick_at
    /\ pc' = "loop"
    /\ UNCHANGED <<auxVars, program, sp, clock, browsers, exc, confVars, now, task,
                   clean_seconds, brick_seconds, due_first, pending, ended_at,
                   plantVars>>

\* The top of "while True": now, task, remaining, and "if remaining <= 0".
\* The countdowns of the iteration before are out of scope by now.
M_Decide ==
    /\ Mowan /\ pc = "loop"
    /\ now' = clock
    /\ task' = SelectTask(next_clean_at, next_brick_at)
    /\ LET rem == DueOf(task') - clock
       IN  /\ pc' = IF rem <= 0 THEN RunPc(task') ELSE "sleep"
           /\ due_first' =
                 IF due_first = "none"
                    /\ RecheckInterval(task') > DueOf(Other(task')) - clock
                 THEN task' ELSE due_first
    /\ pending' =
          IF next_clean_at <= clock /\ next_brick_at <= clock
          THEN Other(task') ELSE "none"
    /\ clean_seconds' = None /\ brick_seconds' = None
    /\ UNCHANGED <<auxVars, program, sp, clock, browsers, exc, confVars, next_clean_at,
                   next_brick_at, ended_at, plantVars>>

\* "if remaining > recheck_interval": time.sleep(recheck_interval) and the
\* recheck; else: time.sleep(max(remaining, 1))
M_Sleep ==
    /\ Mowan /\ pc = "sleep"
    /\ \E over \in SleepOverruns :
          \/ /\ Remaining > RecheckInterval(task)
             /\ clock + RecheckInterval(task) + over <= MaxClock
             /\ clock' = clock + RecheckInterval(task) + over
             /\ pc' = RecheckPc(task)
          \/ /\ ~(Remaining > RecheckInterval(task))
             /\ clock + Max(Remaining, 1) + over <= MaxClock
             /\ clock' = clock + Max(Remaining, 1) + over
             /\ pc' = "loop"
    /\ UNCHANGED <<auxVars, program, sp, browsers, exc, confVars, schedVars, plantVars>>

(***************************************************************************)
(* autoMowan.py: one cleaning session once its page is open (SpecClean):   *)
(* run_loop with click_clean_button and click_drops, the two final reads   *)
(* and browser.close()                                                     *)
(***************************************************************************)
\* The most drop items #beachArea holds in SpecClean.
MaxItems == 3
\* The horizon of time.time() - start, in seconds: cs_elapsed stops counting
\* there.  Every limit of CleanSessionChoices lies below it, so that the
\* comparison of line 306 is exact.
MaxElapsed == 14

\* The values tried for MOWAN_SESSION_SEC (the shipped default is 600).
CleanSessionChoices == {0, 4, 7}

\* CHECK_INTERVAL_MS = 3000, in seconds
CHECK_INTERVAL_SEC == 3
\* time.sleep(1) after a click that returned
ITEM_SLEEP_SEC == 1
\* Seconds the watchdog's open_target can take (0: the url had not changed).
WatchdogDurations == {0, 2}

\* No item.
NoItem == 0

\* The smallest identity no item of the list bears.
FreshItem(list) ==
    CHOOSE id \in 1..(Len(list) + 1) :
        /\ \A k \in 1..Len(list) : list[k] # id
        /\ \A other \in 1..(Len(list) + 1) :
              (\A k \in 1..Len(list) : list[k] # other) => id <= other

\* A slip that uses the loop index: el = items.nth(i)
DropTargetNth(list, i) == IF i + 1 <= Len(list) THEN list[i + 1] ELSE NoItem

\* el = items.first (i is not used)
DropTarget(list, i) == IF list # <<>> THEN Head(list) ELSE NoItem

\* if max_runtime_sec and (time.time() - start) >= max_runtime_sec
RuntimeLimitReached(limit, elapsed) == limit # 0 /\ elapsed >= limit

\* A slip that closes the browser before the countdowns are read.
SessionNextCloseFirst(p) ==
    CASE p = "check" -> "close"
      [] p = "close" -> "read_own"
      [] p = "read_own" -> "read_sibling"
      [] OTHER -> "returned"

\* run_cleaning_session after run_loop: read_countdown_seconds,
\* read_brick_countdown_seconds, browser.close(), return
SessionNext(p) ==
    CASE p = "check" -> "read_own"
      [] p = "read_own" -> "read_sibling"
      [] p = "read_sibling" -> "close"
      [] OTHER -> "returned"

LoopPcs == {"button", "drops_count", "drop", "wait", "check"}

CleanOff ==
    /\ cs_pc = "off" /\ max_runtime_sec = 0 /\ cs_elapsed = 0
    /\ cs_list = <<>> /\ cs_count = 0 /\ cs_i = 0
    /\ cs_target = NoItem /\ cs_failed = NoItem
    /\ cs_done = {} /\ cs_reads = 0 /\ cs_closed = FALSE

\* run_loop(page, max_runtime_sec=CLEAN_SESSION_SEC); start = time.time()
CleanInit ==
    /\ cs_pc = "button"
    /\ max_runtime_sec \in CleanSessionChoices
    /\ cs_elapsed = 0
    /\ cs_list \in {[k \in 1..n |-> k] : n \in 0..MaxItems}
    /\ cs_count = 0 /\ cs_i = 0
    /\ cs_target = NoItem /\ cs_failed = NoItem
    /\ cs_done = {} /\ cs_reads = 0 /\ cs_closed = FALSE

\* click_clean_button(page): the button is clicked, or it is absent, hidden
\* or disabled, or its click fails (logged).  A click lets new drop items
\* appear on the beach.
C_Button ==
    /\ cs_pc = "button"
    /\ \E clicked \in BOOLEAN :
          cs_list' = IF clicked /\ Len(cs_list) < MaxItems
                     THEN Append(cs_list, FreshItem(cs_list))
                     ELSE cs_list
    /\ cs_done' = {"button"}
    /\ cs_pc' = "drops_count"
    /\ UNCHANGED <<max_runtime_sec, cs_elapsed, cs_count, cs_i, cs_target,
                   cs_failed, cs_reads, cs_closed>>

\* click_drops: the wait for network idle (guarded), count = items.count(),
\* "if count <= 0: return"
C_DropsCount ==
    /\ cs_pc = "drops_count"
    /\ cs_count' = Len(cs_list)
    /\ cs_i' = 0
    /\ cs_target' = NoItem /\ cs_failed' = NoItem
    /\ IF Len(cs_list) <= 0
       THEN cs_pc' = "wait" /\ cs_done' = cs_done \cup {"drain"}
       ELSE cs_pc' = "drop" /\ cs_done' = cs_done
    /\ UNCHANGED <<max_runtime_sec, cs_elapsed, cs_list, cs_reads, cs_closed>>

\* One pass of "for i in range(count)": el = items.first, el.click(): a
\* click that returns removes the item and is followed by time.sleep(1); a
\* click that raises (a timeout, or no item left to click) is logged and
\* the item stays.  After the last pass click_drops returns.
C_Drop ==
    /\ cs_pc = "drop" /\ cs_i < cs_count
    /\ LET el == DropTarget(cs_list, cs_i)
       IN  /\ cs_target' = el
           /\ \E ok \in BOOLEAN :
                 IF ok /\ el # NoItem
                 THEN /\ cs_elapsed' = Min(cs_elapsed + ITEM_SLEEP_SEC, MaxElapsed)
                      /\ cs_list' = SelectSeq(cs_list, LAMBDA x : x # el)
                      /\ cs_failed' = NoItem
                 ELSE /\ cs_failed' = el
                      /\ UNCHANGED <<cs_elapsed, cs_list>>
    /\ cs_i' = cs_i + 1
    /\ IF cs_i + 1 = cs_count
       THEN cs_pc' = "wait" /\ cs_done' = cs_done \cup {"drain"}
       ELSE cs_pc' = "drop" /\ cs_done' = cs_done
    /\ UNCHANGED <<max_runtime_sec, cs_count, cs_reads, cs_closed>>

\* The page, while the drain runs: one more drop item appears.
C_Spawn ==
    /\ cs_pc = "drop" /\ Len(cs_list) < MaxItems
    /\ cs_list' = Append(cs_list, FreshItem(cs_list))
    /\ UNCHANGED <<cs_pc, max_runtime_sec, cs_elapsed, cs_count, cs_i,
                   cs_target, cs_failed, cs_done, cs_reads, cs_closed>>

\* page.wait_for_timeout(CHECK_INTERVAL_MS) and the watchdog, which calls
\* open_target when the url has changed
C_Wait ==
    /\ cs_pc = "wait"
    /\ \E d \in WatchdogDurations :
          cs_elapsed' = Min(cs_elapsed + CHECK_INTERVAL_SEC + d, MaxElapsed)
    /\ cs_pc' = "check"
    /\ UNCHANGED <<max_runtime_sec, cs_list, cs_count, cs_i, cs_target,
                   cs_failed, cs_done, cs_reads, cs_closed>>

\* "if max_runtime_sec and ...: break", else the next pass of "while True"
C_Check ==
    /\ cs_pc = "check"
    /\ IF RuntimeLimitReached(max_runtime_sec, cs_elapsed)
       THEN cs_pc' = SessionNext(cs_pc) /\ cs_done' = cs_done
       ELSE cs_pc' = "button" /\ cs_done' = {}
    /\ UNCHANGED <<max_runtime_sec, cs_elapsed, cs_list, cs_count, cs_i,
                   cs_target, cs_failed, cs_reads, cs_closed>>

\* next_seconds = read_countdown_seconds(page);
\* brick_seconds = read_brick_countdown_seconds(page): each returns a
\* countdown or None and raises nothing
C_ReadCountdown ==
    /\ cs_pc \in {"read_own", "read_sibling"}
    /\ cs_reads' = cs_reads + 1
    /\ cs_pc' = SessionNext(cs_pc)
    /\ UNCHANGED <<max_runtime_sec, cs_elapsed, cs_list, cs_count, cs_i,
                   cs_target, cs_failed, cs_done, cs_closed>>

\* browser.close() and the end of the with block
C_Close ==
    /\ cs_pc = "close"
    /\ cs_closed' = TRUE
    /\ cs_pc' = SessionNext(cs_pc)
    /\ UNCHANGED <<max_runtime_sec, cs_elapsed, cs_list, cs_count, cs_i,
                   cs_target, cs_failed, cs_done, cs_reads>>

\* A page operation of run_loop that is in no try (btn.count(),
\* page.wait_for_timeout, page.url) raises, the page being gone: the error
\* leaves run_loop, the with block releases the browser and, scheduler_loop
\* catching nothing, the process ends.
C_Crash ==
    /\ cs_pc \in {"button", "drops_count", "drop", "wait"}
    /\ cs_pc' = "crashed"
    /\ UNCHANGED <<max_runtime_sec, cs_elapsed, cs_list, cs_count, cs_i,
                   cs_target, cs_failed, cs_done, cs_reads, cs_closed>>

(***************************************************************************)
(* autoPlant.py: run_once and loop_smart / loop_fixed                      *)
(***************************************************************************)
\* True: loop_smart runs; loop_fixed only if the source is edited to False.
SMART_SCHEDULE == TRUE
FIXED_INTERVAL_SEC == 180
SAFETY_BUFFER_SEC == -5
MIN_WAKE_INTERVAL_SEC == 10
FALLBACK_INTERVAL_SEC == 300
\* loop_smart: wait_sec = 60 after an exception
EXCEPT_WAIT_SEC == 60
\* loop_fixed: interval = max(5, int(FIXED_INTERVAL_SEC))
FIXED_INTERVAL_FLOOR_SEC == 5

\* The horizon of time.time() in the farm process.
PlantMaxClock == 700

\* Seconds from the read of the plots to the earliest future harvest time.
HarvestDeltas == {2, 30, 100}
\* Seconds browser.close() can take.
CloseDurations == {0, 5}

\* The milliseconds past the whole second that time.time() can show when
\* run_once computes its schedule.
SubSecondMs == {0, 999}

\* A slip that takes the buffer off the delay (SAFETY_BUFFER_SEC read as a
\* margin before the harvest time).
RunOnceWaitEarly(nts, nowms) ==
    LET delay_ms ==
            IF nts # 0 /\ nts * 1000 > nowms
            THEN Max(nts * 1000 - nowms + SAFETY_BUFFER_SEC * 1000,
                     MIN_WAKE_INTERVAL_SEC * 1000)
            ELSE FALLBACK_INTERVAL_SEC * 1000
    IN  delay_ms \div 1000

\* The schedule at the end of run_once, in milliseconds as the code has it;
\* wait_sec = int(delay_ms / 1000).
RunOnceWait(nts, nowms) ==
    LET delay_ms ==
            IF nts # 0 /\ nts * 1000 > nowms
            THEN Max(nts * 1000 - nowms - SAFETY_BUFFER_SEC * 1000,
                     MIN_WAKE_INTERVAL_SEC * 1000)
            ELSE FALLBACK_INTERVAL_SEC * 1000
    IN  delay_ms \div 1000

Plant == program = "autoPlant"

SchedOff ==
    /\ STATUS_RECHECK_INTERVAL_SEC = 0 /\ BRICK_RECHECK_INTERVAL_SEC = 0
    /\ DEFAULT_NEXT_INTERVAL_SEC = 0 /\ BRICK_DEFAULT_INTERVAL_SEC = 0
    /\ now = 0 /\ task = "clean"
    /\ next_clean_at = None /\ next_brick_at = None
    /\ clean_seconds = None /\ brick_seconds = None
    /\ due_first = "none" /\ pending = "none"
    /\ ended_at = NoSessionYet

PlantInit ==
    /\ program = "autoPlant"
    /\ pc = "p_loop" /\ sp = "none"
    /\ clock = 0 /\ browsers = 0 /\ exc = "none"
    /\ SchedOff
    /\ next_ts = 0 /\ wait_sec = 0 /\ now_ms = 0

\* loop_smart / loop_fixed: try: run_once(); p.chromium.launch(...)
P_Launch ==
    /\ Plant /\ pc = "p_loop"
    /\ browsers' = browsers + 1
    /\ exc' = "none"
    /\ next_ts' = 0 /\ now_ms' = 0
    /\ sp' = "launched" /\ pc' = "p_run"
    /\ UNCHANGED <<auxVars, program, clock, confVars, schedVars,
                   wait_sec>>

\* build_storage_state: ensure_cookie_value returns a cookie
P_StorageOk ==
    /\ Plant /\ sp = "launched"
    /\ sp' = "context"
    /\ UNCHANGED <<auxVars, program, pc, clock, browsers, exc,
                   confVars, schedVars, plantVars>>

\* build_storage_state: ensure_cookie_value raises RuntimeError, which leaves
\* the with block and reaches "except Exception" of the loop
P_StorageFail ==
    /\ Plant /\ sp = "launched"
    /\ exc' = "RuntimeError"
    /\ browsers' = PlaywrightExit(browsers)
    /\ sp' = "none" /\ pc' = "p_except"
    /\ UNCHANGED <<auxVars, program, clock, confVars, schedVars,
                   plantVars>>

\* new_context, add_init_script, new_page, open_target, wait_for_selector
P_Open ==
    /\ Plant /\ sp = "context"
    /\ \E d \in LoadDurations :
          /\ clock + d <= PlantMaxClock
          /\ clock' = clock + d
    /\ sp' = "page"
    /\ UNCHANGED <<auxVars, program, pc, browsers, exc, confVars,
                   schedVars, plantVars>>

\* harvest_mature_plots(page); plant_on_all_empty_slots(page)
P_Act ==
    /\ Plant /\ sp = "page"
    /\ \E d \in ActDurations :
          /\ clock + d <= PlantMaxClock
          /\ clock' = clock + d
    /\ sp' = "acted"
    /\ UNCHANGED <<auxVars, program, pc, browsers, exc, confVars,
                   schedVars, plantVars>>

\* A page operation outside every try (new_context, planted.count(),
\* wait_for_load_state("networkidle"), empty.count()) raises: the with block
\* is left and the loop's "except Exception" catches it.
P_Raise ==
    /\ Plant /\ sp \in {"context", "page"}
    /\ exc' = "Error"
    /\ browsers' = PlaywrightExit(browsers)
    /\ sp' = "none" /\ pc' = "p_except"
    /\ UNCHANGED <<auxVars, program, clock, confVars, schedVars,
                   plantVars>>

\* next_ts = get_next_harvest_ts(page): the earliest time after now, or 0
P_Read ==
    /\ Plant /\ sp = "acted"
    /\ next_ts' \in {0} \cup {clock + d : d \in HarvestDeltas}
    /\ sp' = "read"
    /\ UNCHANGED <<auxVars, program, pc, clock, browsers, exc,
                   confVars, schedVars, wait_sec, now_ms>>

\* browser.close() and the end of the with block
P_Close ==
    /\ Plant /\ sp = "read"
    /\ \E d \in CloseDurations :
          /\ clock + d <= PlantMaxClock
          /\ clock' = clock + d
    /\ browsers' = PlaywrightExit(browsers - 1)
    /\ sp' = "none" /\ pc' = "p_sched"
    /\ UNCHANGED <<auxVars, program, exc, confVars, schedVars,
                   plantVars>>

\* The schedule of run_once and its return: wait_sec = run_once() in
\* loop_smart; loop_fixed drops the value.
P_Schedule ==
    /\ Plant /\ pc = "p_sched"
    /\ \E ms \in SubSecondMs : now_ms' = clock * 1000 + ms
    /\ wait_sec' = IF SMART_SCHEDULE THEN RunOnceWait(next_ts, now_ms')
                   ELSE wait_sec
    /\ pc' = "p_sleep"
    /\ UNCHANGED <<auxVars, program, sp, clock, browsers, exc,
                   confVars, schedVars, next_ts>>

\* except Exception as e: log; loop_smart also sets wait_sec = 60
P_Except ==
    /\ Plant /\ pc = "p_except"
    /\ wait_sec' = IF SMART_SCHEDULE THEN EXCEPT_WAIT_SEC ELSE wait_sec
    /\ pc' = "p_sleep"
    /\ UNCHANGED <<auxVars, program, sp, clock, browsers, exc,
                   confVars, schedVars, next_ts, now_ms>>

\* time.sleep(wait_sec) in loop_smart, time.sleep(interval) in loop_fixed
P_Sleep ==
    /\ Plant /\ pc = "p_sleep"
    /\ LET d == IF SMART_SCHEDULE THEN wait_sec
                ELSE Max(FIXED_INTERVAL_FLOOR_SEC, FIXED_INTERVAL_SEC)
       IN  /\ clock + d <= PlantMaxClock
           /\ clock' = clock + d
    /\ pc' = "p_loop"
    /\ UNCHANGED <<auxVars, program, sp, browsers, exc, confVars,
                   schedVars, plantVars>>

(***************************************************************************)
(* autoMowan.py: parse_countdown_text (SpecParse)                          *)
(* A text is a sequence of one-character strings.                          *)
(***************************************************************************)
\* The longest text tried in SpecParse.
MaxTextLen == 8
\* The characters tried: two digits, the colon and the blank (which
\* separates as any other character does, and which strip() removes).
ParseAlphabet == {"0", "1", ":", " "}

\* Python's None for "str | None": no text is equal to it.
NoText == <<"None">>

Digits == {"0", "1", "2", "3", "4", "5", "6", "7", "8", "9"}
IsDigit(c) == c \in Digits

\* int() of one digit
DigitValue(c) ==
    CASE c = "0" -> 0 [] c = "1" -> 1 [] c = "2" -> 2 [] c = "3" -> 3
      [] c = "4" -> 4 [] c = "5" -> 5 [] c = "6" -> 6 [] c = "7" -> 7
      [] c = "8" -> 8 [] OTHER -> 9

\* int() of text[i..j], a run of digits
RECURSIVE IntOf(_, _, _)
IntOf(text, i, j) ==
    IF j < i THEN 0
    ELSE IntOf(text, i, j - 1) * 10 + DigitValue(text[j])

\* text.strip(): the blanks at both ends are dropped
RECURSIVE LStrip(_)
LStrip(text) ==
    IF text # <<>> /\ Head(text) = " " THEN LStrip(Tail(text)) ELSE text

RECURSIVE RStrip(_)
RStrip(text) ==
    IF text # <<>> /\ text[Len(text)] = " "
    THEN RStrip(SubSeq(text, 1, Len(text) - 1)) ELSE text

Strip(text) == RStrip(LStrip(text))

\* ":" \d{2} ":" \d{2} at text[i..i+5]
TailAt(text, i) ==
    /\ i + 5 <= Len(text)
    /\ text[i] = ":" /\ IsDigit(text[i + 1]) /\ IsDigit(text[i + 2])
    /\ text[i + 3] = ":" /\ IsDigit(text[i + 4]) /\ IsDigit(text[i + 5])

\* A slip that writes \d for \d{1,2}: the hours are one digit.
MatchAtOneDigitHour(text, i) ==
    IF i <= Len(text) /\ IsDigit(text[i]) /\ TailAt(text, i + 1)
    THEN <<IntOf(text, i, i), IntOf(text, i + 2, i + 3),
           IntOf(text, i + 5, i + 6)>>
    ELSE <<>>

\* COUNTDOWN_RE tried at position i: \d{1,2} is greedy, so two digits are
\* tried first and one digit on backtracking.  The groups, or <<>>.
MatchAt(text, i) ==
    IF i + 1 <= Len(text) /\ IsDigit(text[i]) /\ IsDigit(text[i + 1])
       /\ TailAt(text, i + 2)
    THEN <<IntOf(text, i, i + 1), IntOf(text, i + 3, i + 4),
           IntOf(text, i + 6, i + 7)>>
    ELSE IF i <= Len(text) /\ IsDigit(text[i]) /\ TailAt(text, i + 1)
    THEN <<IntOf(text, i, i), IntOf(text, i + 2, i + 3),
           IntOf(text, i + 5, i + 6)>>
    ELSE <<>>

\* COUNTDOWN_RE.search(text): the first position, from i on, with a match
RECURSIVE SearchFrom(_, _)
SearchFrom(text, i) ==
    IF i > Len(text) THEN <<>>
    ELSE IF MatchAt(text, i) # <<>> THEN MatchAt(text, i)
    ELSE SearchFrom(text, i + 1)

\* re.findall(r"\d+", text): the maximal runs of digits from position i on,
\* start being the first position of the run being read (0 when none is).
RECURSIVE FindAllDigits(_, _, _)
FindAllDigits(text, i, start) ==
    IF i > Len(text)
    THEN IF start = 0 THEN <<>> ELSE <<IntOf(text, start, Len(text))>>
    ELSE IF IsDigit(text[i])
    THEN FindAllDigits(text, i + 1, IF start = 0 THEN i ELSE start)
    ELSE IF start = 0 THEN FindAllDigits(text, i + 1, 0)
    ELSE <<IntOf(text, start, i - 1)>> \o FindAllDigits(text, i + 1, 0)

Hms(g) == g[1] * 3600 + g[2] * 60 + g[3]

parse_countdown_text(text) ==
    IF text = NoText \/ text = <<>> THEN None
    ELSE LET stripped == Strip(text)
             match == SearchFrom(stripped, 1)
             digits == FindAllDigits(stripped, 1, 0)
         IN  IF match # <<>> THEN Hms(match)
             ELSE IF Len(digits) >= 3 THEN Hms(SubSeq(digits, 1, 3))
             ELSE None

ParseTexts ==
    {NoText} \cup UNION {[1..n -> ParseAlphabet] : n \in 0..MaxTextLen}

ParseOff == pt_pc = "off" /\ pt_text = <<>> /\ pt_result = None

ParseInit ==
    /\ pt_pc = "call"
    /\ pt_text \in ParseTexts
    /\ pt_result = None

ParseCall ==
    /\ pt_pc = "call"
    /\ pt_result' = parse_countdown_text(pt_text)
    /\ pt_pc' = "done"
    /\ UNCHANGED pt_text

(***************************************************************************)
(* autoPlant.py: harvest_mature_plots (SpecHarvest)                        *)
(***************************************************************************)
\* The plots of the page tried in SpecHarvest.
MaxPlots == 3
\* int(time.time()) when the call starts.
HarvestEpoch == 100

\* The data-harvest-time of a planted plot: None when the attribute is
\* absent (or empty, or no number), else a time in seconds: "0", a second
\* ago, this second, the next second, and three seconds from now.
HarvestTimes ==
    {None, 0, HarvestEpoch - 1, HarvestEpoch, HarvestEpoch + 1, HarvestEpoch + 3}

\* Seconds one el.get_attribute("data-harvest-time") can take.
AttrDurations == {0, 1}

EmptyPlot == [cls |-> "empty", ht |-> None]
HarvestPlots ==
    {EmptyPlot} \cup {[cls |-> "planted", ht |-> t] : t \in HarvestTimes}

\* page.locator(SEL_PLOTS_PLANTED): the planted plots, in document order
PlantedIds(page) ==
    LET IsPlanted(i) == page[i].cls = "planted"
    IN  SelectSeq([i \in 1..Len(page) |-> i], IsPlanted)

\* A slip that reads "<" for "<=".
is_mature_strict(t, tnow) == t # None /\ t < tnow

\* return bool(t) and int(t) <= int(time.time())
is_mature(t, tnow) == t # None /\ t <= tnow

HarvestOff ==
    /\ hv_pc = "off" /\ hv_page = <<>> /\ hv_page0 = <<>>
    /\ hv_clock = 0 /\ hv_start = 0 /\ hv_n = 0 /\ hv_i = 0
    /\ hv_mature = <<>> /\ hv_attempts = <<>> /\ hv_failed = {}
    /\ hv_ret = None

HarvestInit ==
    /\ hv_pc = "count"
    /\ hv_page \in [1..MaxPlots -> HarvestPlots]
    /\ hv_page0 = hv_page
    /\ hv_clock = HarvestEpoch /\ hv_start = HarvestEpoch
    /\ hv_n = 0 /\ hv_i = 0
    /\ hv_mature = <<>>
    /\ hv_attempts = [i \in 1..MaxPlots |-> 0]
    /\ hv_failed = {}
    /\ hv_ret = None

\* planted = page.locator(SEL_PLOTS_PLANTED); n = planted.count()
H_Count ==
    /\ hv_pc = "count"
    /\ hv_n' = Len(PlantedIds(hv_page))
    /\ hv_i' = 0
    /\ hv_pc' = "scan"
    /\ UNCHANGED <<hv_page, hv_page0, hv_clock, hv_start, hv_mature,
                   hv_attempts, hv_failed, hv_ret>>

\* for i in range(n): el = planted.nth(i); if is_mature(el): append
H_Scan ==
    /\ hv_pc = "scan" /\ hv_i < hv_n
    /\ \E d \in AttrDurations :
          LET el == PlantedIds(hv_page)[hv_i + 1]
          IN  /\ hv_clock' = hv_clock + d
              /\ hv_mature' =
                    IF is_mature(hv_page[el].ht, hv_clock')
                    THEN Append(hv_mature, el) ELSE hv_mature
    /\ hv_i' = hv_i + 1
    /\ UNCHANGED <<hv_pc, hv_page, hv_page0, hv_start, hv_n, hv_attempts,
                   hv_failed, hv_ret>>

\* if not mature_selectors: return 0; else the second for loop starts
H_ScanDone ==
    /\ hv_pc = "scan" /\ hv_i = hv_n
    /\ IF hv_mature = <<>>
       THEN hv_pc' = "returned" /\ hv_ret' = 0
       ELSE hv_pc' = "click" /\ hv_ret' = hv_ret
    /\ hv_i' = 0
    /\ UNCHANGED <<hv_page, hv_page0, hv_clock, hv_start, hv_n, hv_mature,
                   hv_attempts, hv_failed>>

\* try: page.locator(sel).click(timeout=4000) except Exception: log.
\* A click that succeeds harvests the plot, which stops being planted.
H_Click ==
    /\ hv_pc = "click" /\ hv_i < Len(hv_mature)
    /\ LET sel == hv_mature[hv_i + 1]
       IN  /\ hv_attempts' = [hv_attempts EXCEPT ![sel] = @ + 1]
           /\ \E ok \in BOOLEAN :
                 /\ hv_page' = IF ok THEN [hv_page EXCEPT ![sel] = EmptyPlot]
                               ELSE hv_page
                 /\ hv_failed' = IF ok THEN hv_failed ELSE hv_failed \cup {sel}
    /\ hv_i' = hv_i + 1
    /\ hv_pc' = IF hv_i + 1 = Len(hv_mature) THEN "idle" ELSE "click"
    /\ UNCHANGED <<hv_page0, hv_clock, hv_start, hv_n, hv_mature, hv_ret>>

\* page.wait_for_load_state("networkidle") returns; return len(...)
H_IdleOk ==
    /\ hv_pc = "idle"
    /\ hv_ret' = Len(hv_mature)
    /\ hv_pc' = "returned"
    /\ UNCHANGED <<hv_page, hv_page0, hv_clock, hv_start, hv_n, hv_i,
                   hv_mature, hv_attempts, hv_failed>>

\* page.wait_for_load_state("networkidle") raises TimeoutError after its
\* default 30 s: line 166 is in no try, so the error leaves
\* harvest_mature_plots and run_once (line 298); plant_on_all_empty_slots
\* and get_next_harvest_ts are not called.
H_IdleTimeout ==
    /\ hv_pc = "idle"
    /\ hv_pc' = "raised"
    /\ UNCHANGED <<hv_page, hv_page0, hv_clock, hv_start, hv_n, hv_i,
                   hv_mature, hv_attempts, hv_failed, hv_ret>>

(***************************************************************************)
(* autoPlant.py: plant_on_all_empty_slots (SpecSow), called twice in       *)
(* immediate succession on one page                                        *)
(***************************************************************************)
\* The plots of the page tried in SpecSow.
MaxSlots == 3

\* A plot is planted (.planted), for sale (.slot-buyable), locked
\* (.slot-locked) or none of them: empty.
SlotClasses == {"empty", "planted", "buyable", "locked"}

\* page.locator('...:not(.planted):not(.slot-buyable):not(.slot-locked)'):
\* the empty plots, in document order
EmptyIds(page) ==
    LET IsEmpty(i) == page[i] = "empty"
    IN  SelectSeq([i \in 1..Len(page) |-> i], IsEmpty)

\* is_planted_selector: el.classList.contains('planted')
is_planted_selector(page, sel) == page[sel] = "planted"

\* A slip that tries the fallback texts before the preferred ones.
pick_seed_fallback_first(seeds) ==
    IF seeds.fallback THEN "fallback"
    ELSE IF seeds.preferred THEN "preferred"
    ELSE "none"

\* pick_seed_locator: the first unlocked card with a preferred text, else
\* the first unlocked card with a fallback text, else None
pick_seed_locator(seeds) ==
    IF seeds.preferred THEN "preferred"
    ELSE IF seeds.fallback THEN "fallback"
    ELSE "none"

\* A slip that keeps the count in a variable that outlives the call.
KeptPlantedOk(prev) == prev

\* planted_ok = 0
InitialPlantedOk(prev) == 0

NoTurns == [i \in 1..MaxSlots |-> <<>>]
NoSight == [i \in 1..MaxSlots |-> "unseen"]
NoCall == [page |-> <<>>, seed |-> "untried", turns |-> <<>>, ret |-> None]

SowOff ==
    /\ so_pc = "off" /\ so_call = 0 /\ so_page = <<>> /\ so_start = <<>>
    /\ so_seeds = [preferred |-> FALSE, fallback |-> FALSE]
    /\ so_keys = <<>> /\ so_i = 0 /\ so_which = "none" /\ so_seed = "untried"
    /\ planted_ok = 0 /\ so_turns = <<>> /\ so_sight = <<>>
    /\ so_ret = None /\ so_first = NoCall

SowInit ==
    /\ so_pc = "count" /\ so_call = 1
    /\ so_page \in [1..MaxSlots -> SlotClasses]
    /\ so_start = so_page
    /\ so_seeds \in [preferred : BOOLEAN, fallback : BOOLEAN]
    /\ so_keys = <<>> /\ so_i = 0 /\ so_which = "none" /\ so_seed = "untried"
    /\ planted_ok = 0 /\ so_turns = NoTurns /\ so_sight = NoSight
    /\ so_ret = None /\ so_first = NoCall

\* cnt = empty.count(); if cnt <= 0: return 0; empty_keys = [...]
S_Count ==
    /\ so_pc = "count"
    /\ IF Len(EmptyIds(so_page)) <= 0
       THEN so_pc' = "returned" /\ so_ret' = 0 /\ so_keys' = so_keys
       ELSE so_pc' = "seed" /\ so_ret' = so_ret
            /\ so_keys' = EmptyIds(so_page)
    /\ UNCHANGED <<so_call, so_page, so_start, so_seeds, so_i, so_which,
                   so_seed, planted_ok, so_turns, so_sight, so_first>>

\* seed_loc, which = pick_seed_locator(page); if seed_loc is None: return 0
S_PickSeed ==
    /\ so_pc = "seed"
    /\ so_which' = pick_seed_locator(so_seeds)
    /\ IF so_which' = "none"
       THEN so_pc' = "returned" /\ so_ret' = 0
       ELSE so_pc' = "seed_click" /\ so_ret' = so_ret
    /\ UNCHANGED <<so_call, so_page, so_start, so_seeds, so_keys, so_i,
                   so_seed, planted_ok, so_turns, so_sight, so_first>>

\* try: seed_loc.click(timeout=2000) except Exception: return 0;
\* planted_ok = 0
S_SeedClick ==
    /\ so_pc = "seed_click"
    /\ \E ok \in BOOLEAN :
          IF ok
          THEN /\ so_seed' = "ok"
               /\ planted_ok' = InitialPlantedOk(planted_ok)
               /\ so_i' = 0
               /\ so_pc' = "slot" /\ so_ret' = so_ret
          ELSE /\ so_seed' = "failed"
               /\ so_pc' = "returned" /\ so_ret' = 0
               /\ UNCHANGED <<planted_ok, so_i>>
    /\ UNCHANGED <<so_call, so_page, so_start, so_seeds, so_keys, so_which,
                   so_turns, so_sight, so_first>>

\* One pass of "for idx, sel in enumerate(empty_keys, 1)": continue when the
\* plot is planted by now, else click it once and count a click that
\* returned.  A click that returned plants the plot or leaves it empty (the
\* page may refuse it).
S_Slot ==
    /\ so_pc = "slot" /\ so_i < Len(so_keys)
    /\ LET sel == so_keys[so_i + 1]
       IN  /\ so_sight' = [so_sight EXCEPT ![sel] = so_page[sel]]
           /\ IF is_planted_selector(so_page, sel)
              THEN /\ so_turns' =
                         [so_turns EXCEPT ![sel] = Append(@, "skipped")]
                   /\ UNCHANGED <<planted_ok, so_page>>
              ELSE \E ok \in BOOLEAN, sown \in BOOLEAN :
                      /\ so_turns' =
                            [so_turns EXCEPT
                               ![sel] = Append(@, IF ok THEN "ok" ELSE "failed")]
                      /\ planted_ok' = IF ok THEN planted_ok + 1 ELSE planted_ok
                      /\ so_page' =
                            IF ok /\ sown
                            THEN [so_page EXCEPT ![sel] = "planted"]
                            ELSE so_page
    /\ so_i' = so_i + 1
    /\ so_pc' = IF so_i + 1 = Len(so_keys) THEN "idle" ELSE "slot"
    /\ UNCHANGED <<so_call, so_start, so_seeds, so_keys, so_which, so_seed,
                   so_ret, so_first>>

\* The page, while the loop runs: a plot that was empty shows as planted
\* (a planting of the pass before, or of another session).
S_Race ==
    /\ so_pc = "slot"
    /\ \E id \in 1..MaxSlots :
          /\ so_page[id] = "empty"
          /\ so_page' = [so_page EXCEPT ![id] = "planted"]
    /\ UNCHANGED <<so_pc, so_call, so_start, so_seeds, so_keys, so_i,
                   so_which, so_seed, planted_ok, so_turns, so_sight, so_ret,
                   so_first>>

\* page.wait_for_load_state("networkidle") returns; return planted_ok
S_IdleOk ==
    /\ so_pc = "idle"
    /\ so_ret' = planted_ok
    /\ so_pc' = "returned"
    /\ UNCHANGED <<so_call, so_page, so_start, so_seeds, so_keys, so_i,
                   so_which, so_seed, planted_ok, so_turns, so_sight,
                   so_first>>

\* page.wait_for_load_state("networkidle") raises TimeoutError (line 269 is
\* in no try): the call returns nothing
S_IdleTimeout ==
    /\ so_pc = "idle"
    /\ so_pc' = "raised"
    /\ UNCHANGED <<so_call, so_page, so_start, so_seeds, so_keys, so_i,
                   so_which, so_seed, planted_ok, so_turns, so_sight, so_ret,
                   so_first>>

\* The second call, right after the first has returned.
S_Again ==
    /\ so_pc = "returned" /\ so_call = 1
    /\ so_first' = [page |-> so_start, seed |-> so_seed, turns |-> so_turns,
                    ret |-> so_ret]
    /\ so_call' = 2
    /\ so_start' = so_page
    /\ so_keys' = <<>> /\ so_i' = 0 /\ so_which' = "none"
    /\ so_seed' = "untried"
    /\ so_turns' = NoTurns /\ so_sight' = NoSight
    /\ so_ret' = None
    /\ so_pc' = "count"
    /\ UNCHANGED <<so_page, so_seeds, planted_ok>>

MainOff ==
    /\ program = "none" /\ pc = "off" /\ sp = "none"
    /\ clock = 0 /\ browsers = 0 /\ exc = "none"
    /\ SchedOff /\ PlantOff

Init == (MowanInit \/ PlantInit) /\ NormOff /\ OpenOff /\ ParseOff /\ HarvestOff /\ SowOff /\ CleanOff

Next ==
    \/ M_Launch \/ M_StorageOk \/ M_StorageFail \/ M_Open \/ M_Act \/ M_Raise
    \/ M_Read \/ M_Close \/ M_InitWrite \/ M_PostRun \/ M_PostRecheck
    \/ M_Decide \/ M_Sleep
    \/ P_Launch \/ P_StorageOk \/ P_StorageFail \/ P_Open \/ P_Act \/ P_Raise
    \/ P_Read \/ P_Close \/ P_Schedule \/ P_Except \/ P_Sleep

Spec == Init /\ [][Next]_vars

InitNormalize == NormInit /\ OpenOff /\ MainOff /\ ParseOff /\ HarvestOff /\ SowOff /\ CleanOff
NextNormalize == NormCall /\ UNCHANGED <<openVars, mainVars, parseVars, harvVars, sowVars, cleanVars>>
SpecNormalize == InitNormalize /\ [][NextNormalize]_vars

InitOpen == OpenInit /\ NormOff /\ MainOff /\ ParseOff /\ HarvestOff /\ SowOff /\ CleanOff
NextOpen ==
    \/ OtGotoOk /\ UNCHANGED <<normVars, mainVars, parseVars, harvVars, sowVars, cleanVars>>
    \/ OtGotoFail /\ UNCHANGED <<normVars, mainVars, parseVars, harvVars, sowVars, cleanVars>>
SpecOpen == InitOpen /\ [][NextOpen]_vars

InitParse == ParseInit /\ NormOff /\ OpenOff /\ MainOff /\ HarvestOff /\ SowOff /\ CleanOff
NextParse == ParseCall /\ UNCHANGED <<normVars, openVars, mainVars, harvVars, sowVars, cleanVars>>
SpecParse == InitParse /\ [][NextParse]_vars

harvOthers == <<normVars, openVars, parseVars, mainVars, sowVars, cleanVars>>
InitHarvest ==
    HarvestInit /\ NormOff /\ OpenOff /\ ParseOff /\ MainOff /\ SowOff /\ CleanOff
NextHarvest ==
    \/ H_Count /\ UNCHANGED harvOthers
    \/ H_Scan /\ UNCHANGED harvOthers
    \/ H_ScanDone /\ UNCHANGED harvOthers
    \/ H_Click /\ UNCHANGED harvOthers
    \/ H_IdleOk /\ UNCHANGED harvOthers
    \/ H_IdleTimeout /\ UNCHANGED harvOthers
SpecHarvest == InitHarvest /\ [][NextHarvest]_vars

sowOthers == <<normVars, openVars, parseVars, mainVars, harvVars, cleanVars>>
InitSow ==
    SowInit /\ NormOff /\ OpenOff /\ ParseOff /\ MainOff /\ HarvestOff /\ CleanOff
NextSow ==
    \/ S_Count /\ UNCHANGED sowOthers
    \/ S_PickSeed /\ UNCHANGED sowOthers
    \/ S_SeedClick /\ UNCHANGED sowOthers
    \/ S_Slot /\ UNCHANGED sowOthers
    \/ S_Race /\ UNCHANGED sowOthers
    \/ S_IdleOk /\ UNCHANGED sowOthers
    \/ S_IdleTimeout /\ UNCHANGED sowOthers
    \/ S_Again /\ UNCHANGED sowOthers
SpecSow == InitSow /\ [][NextSow]_vars

cleanOthers == <<normVars, openVars, parseVars, mainVars, harvVars, sowVars>>
InitClean ==
    /\ CleanInit /\ NormOff /\ OpenOff /\ ParseOff /\ MainOff
    /\ HarvestOff /\ SowOff
NextClean ==
    \/ C_Button /\ UNCHANGED cleanOthers
    \/ C_DropsCount /\ UNCHANGED cleanOthers
    \/ C_Drop /\ UNCHANGED cleanOthers
    \/ C_Spawn /\ UNCHANGED cleanOthers
    \/ C_Wait /\ UNCHANGED cleanOthers
    \/ C_Check /\ UNCHANGED cleanOthers
    \/ C_ReadCountdown /\ UNCHANGED cleanOthers
    \/ C_Close /\ UNCHANGED cleanOthers
    \/ C_Crash /\ UNCHANGED cleanOthers
SpecClean == InitClean /\ [][NextClean]_vars

\* The steps of the session's own thread: each page operation returns and
\* the thread goes on to its next statement.
CleanProgress ==
    (C_Button \/ C_DropsCount \/ C_Drop \/ C_Wait \/ C_Check
       \/ C_ReadCountdown \/ C_Close) /\ UNCHANGED cleanOthers
SpecCleanLive == SpecClean /\ WF_vars(CleanProgress)

(***************************************************************************)
(* C1: whatever the countdown (unknown, zero or any duration) and whatever *)
(* the fallback, the wait _normalize_wait returns is at least              *)
(* MIN_WAIT_AFTER_CHECK_SEC.                                               *)
(***************************************************************************)
C1_WaitAtLeastFloor ==
    nw_pc = "done" => nw_result >= MIN_WAIT_AFTER_CHECK_SEC

\* An unknown countdown with a fallback under the floor has been normalized.
C1_Witness ==
    /\ nw_pc = "done"
    /\ nw_seconds = None
    /\ nw_fallback < MIN_WAIT_AFTER_CHECK_SEC
    /\ nw_result = MIN_WAIT_AFTER_CHECK_SEC

(***************************************************************************)
(* C2: unknown is not zero.  Given unknown, the wait is the fallback when  *)
(* fallback >= floor and the floor otherwise; given a known zero it is the *)
(* floor, whatever the fallback.                                           *)
(***************************************************************************)
C2_UnknownIsNotZero ==
    nw_pc = "done" =>
        /\ nw_seconds = None =>
              nw_result = IF nw_fallback >= MIN_WAIT_AFTER_CHECK_SEC
                          THEN nw_fallback
                          ELSE MIN_WAIT_AFTER_CHECK_SEC
        /\ nw_seconds = 0 => nw_result = MIN_WAIT_AFTER_CHECK_SEC

\* A known zero was normalized beside a fallback above the floor: the result
\* is the floor, not that fallback.
C2_Witness ==
    /\ nw_pc = "done"
    /\ nw_seconds = 0
    /\ nw_fallback > MIN_WAIT_AFTER_CHECK_SEC
    /\ nw_result # nw_fallback

(***************************************************************************)
(* C3: scheduler_loop takes the task with the earlier due time as active   *)
(* (clean when the two are equal), and when the active task's recheck      *)
(* interval exceeds the other task's distance t2 - now, the next session   *)
(* to start is the active task's.                                          *)
(***************************************************************************)
C3_EarliestFirst ==
    /\ pc \in {"sleep"} \cup RunPcs =>
          /\ task = "clean" => next_clean_at <= next_brick_at
          /\ task = "brick" => next_brick_at < next_clean_at
    /\ (pc \in RunPcs /\ due_first # "none") => pc = RunPc(due_first)

\* The brick task was the earlier one, the loop slept until its due time and
\* its session is now about to start, the clean task still waiting.
C3_Witness ==
    /\ pc = "run_brick" /\ sp = "none"
    /\ due_first = "brick"
    /\ next_brick_at < next_clean_at
    /\ clock = next_brick_at

(***************************************************************************)
(* C4: every sleep of scheduler_loop (the recheck sleep and the sleep      *)
(* until the due time) lasts at least 1 second, for every configured       *)
(* recheck interval.                                                       *)
(***************************************************************************)
C4_SleepAtLeastOne == [][pc = "sleep" => clock' - clock >= 1]_vars

(***************************************************************************)
(* C5: when both tasks are due in one iteration, the session of the task   *)
(* left waiting starts in the iteration that follows the first session,    *)
(* whatever the first session read.                                        *)
(***************************************************************************)
C5_ConsecutiveWhateverRead ==
    [][(pc = "loop" /\ pending # "none") => pc' = RunPc(pending)]_vars

\* C5 as amended: it does so exactly when the first session read no
\* countdown for the waiting task; a known reading moves the waiting task's
\* due time to now + max(reading, floor) and the next iteration sleeps.
C5_ConsecutiveIfSiblingUnknown ==
    [][(pc = "loop" /\ pending # "none") =>
          IF ReadingOf(pending) = None
          THEN pc' = RunPc(pending)
          ELSE /\ pc' = "sleep"
               /\ DueOf(pending) >= clock + MIN_WAIT_AFTER_CHECK_SEC]_vars

\* Both were due, the clean session has run and read no brick countdown: the
\* brick task is still due at the next comparison.
C5_Witness ==
    /\ pc = "loop" /\ pending = "brick"
    /\ brick_seconds = None
    /\ next_brick_at <= clock
    /\ next_clean_at > clock

(***************************************************************************)
(* C6: every write of next_clean_at or next_brick_at sets it to the time   *)
(* of the write plus an output of _normalize_wait, so that it is at least  *)
(* now + MIN_WAIT_AFTER_CHECK_SEC right after the write.                   *)
(***************************************************************************)
C6_DueFromNow ==
    [][/\ next_clean_at' # next_clean_at =>
             /\ next_clean_at' >= clock' + MIN_WAIT_AFTER_CHECK_SEC
             /\ \E s \in Readings :
                   next_clean_at' =
                      clock' + _normalize_wait(s, DEFAULT_NEXT_INTERVAL_SEC)
       /\ next_brick_at' # next_brick_at =>
             /\ next_brick_at' >= clock' + MIN_WAIT_AFTER_CHECK_SEC
             /\ \E s \in Readings :
                   next_brick_at' =
                      clock' + _normalize_wait(s, BRICK_DEFAULT_INTERVAL_SEC)]_vars

\* A session that took time has ended with a zero clean countdown: the new
\* due time is the floor after the time of the write, not after the
\* iteration's now.
C6_Witness ==
    /\ pc = "loop"
    /\ clean_seconds = 0
    /\ next_clean_at = clock + MIN_WAIT_AFTER_CHECK_SEC
    /\ now > 0 /\ now < clock

(***************************************************************************)
(* C7: a task whose own countdown is absent at the initial probe, at a     *)
(* recheck or at the end of its session gets the due time                  *)
(* now + its default interval.                                             *)
(***************************************************************************)
DefaultIntervalOf(t) ==
    IF t = "clean" THEN DEFAULT_NEXT_INTERVAL_SEC ELSE BRICK_DEFAULT_INTERVAL_SEC

OwnWritePcs(t) ==
    IF t = "clean" THEN {"init_write", "post_clean", "post_recheck_clean"}
    ELSE {"init_write", "post_brick", "post_recheck_brick"}

C7_AbsentGivesDefault ==
    [][\A t \in {"clean", "brick"} :
          (pc \in OwnWritePcs(t) /\ ReadingOf(t) = None) =>
             (IF t = "clean" THEN next_clean_at' ELSE next_brick_at')
                = clock' + DefaultIntervalOf(t)]_vars

\* C7 as amended: now + max(default interval, MIN_WAIT_AFTER_CHECK_SEC),
\* which is now + the default whenever the configured default is >= 30.
C7_AbsentGivesClampedDefault ==
    [][\A t \in {"clean", "brick"} :
          (pc \in OwnWritePcs(t) /\ ReadingOf(t) = None) =>
             (IF t = "clean" THEN next_clean_at' ELSE next_brick_at')
                = clock' + Max(DefaultIntervalOf(t),
                               MIN_WAIT_AFTER_CHECK_SEC)]_vars

\* Right after the initial probes, the brick countdown absent: the brick
\* task is due its default interval after the write.
C7_Witness ==
    /\ pc = "loop" /\ now = 0 /\ clock > 0
    /\ brick_seconds = None
    /\ BRICK_DEFAULT_INTERVAL_SEC >= MIN_WAIT_AFTER_CHECK_SEC
    /\ next_brick_at = clock + BRICK_DEFAULT_INTERVAL_SEC

(***************************************************************************)
(* C8: a missing credential is fatal in both programs: once                *)
(* ensure_cookie_value has raised, the process ends; it never sleeps and   *)
(* never starts another session.                                           *)
(***************************************************************************)
C8_CredentialFatal ==
    exc = "RuntimeError" => pc \in {"terminated", "p_except"}

(***************************************************************************)
(* C9: at most one browser instance is open at any time, and none is open  *)
(* outside a session or probe: not while the loop compares, writes or      *)
(* sleeps, also after a step of the session has failed.                    *)
(***************************************************************************)
C9_OneBrowser ==
    /\ browsers <= 1
    /\ sp = "none" => browsers = 0

\* The farm loop sleeps after a session that raised, and no browser is open.
C9_Witness ==
    /\ program = "autoPlant" /\ pc = "p_sleep"
    /\ exc = "Error"
    /\ browsers = 0

(***************************************************************************)
(* C10: open_target retries until a load succeeds.  The sleep before retry *)
(* k is min(1.8^(k-1), 10) seconds: 1 s first, times 1.8 after each        *)
(* failure, never decreasing and never above 10 s; and open_target has     *)
(* returned exactly when a load has succeeded.                             *)
(***************************************************************************)
RECURSIVE Pow(_, _)
Pow(b, e) == IF e = 0 THEN 1 ELSE b * Pow(b, e - 1)

\* min(1.8^(k-1), 10) seconds in ticks, from the closed form 18^j / 10^j.
ExpectedSleep(k) ==
    LET j == k - 1
    IN  IF Pow(18, j) >= BACKOFF_CAP_SEC * Pow(10, j)
        THEN BACKOFF_CAP_SEC * TicksPerSec
        ELSE (Pow(18, j) * TicksPerSec) \div Pow(10, j)

C10_BackoffSchedule ==
    /\ \A k \in 1..Len(ot_sleeps) :
          /\ ot_sleeps[k] = ExpectedSleep(k)
          /\ ot_sleeps[k] <= BACKOFF_CAP_SEC * TicksPerSec
          /\ k > 1 => ot_sleeps[k] >= ot_sleeps[k - 1]
    /\ ot_pc = "returned" <=> ot_loaded
    /\ ot_pc = "goto" => ot_backoff = ExpectedSleep(Len(ot_sleeps) + 1)

\* open_target returned after five failed loads, the fifth sleep at the cap
\* and the fourth still under it.
C10_Witness ==
    /\ ot_pc = "returned"
    /\ Len(ot_sleeps) >= 5
    /\ ot_sleeps[4] < BACKOFF_CAP_SEC * TicksPerSec
    /\ ot_sleeps[5] = BACKOFF_CAP_SEC * TicksPerSec

(***************************************************************************)
(* C11: an error of a page operation inside an executor never leaves the   *)
(* executor: here, harvest_mature_plots always returns to run_once, which  *)
(* goes on to plant_on_all_empty_slots and the next-harvest read.          *)
(***************************************************************************)
C11_ExecutorErrorsContained ==
    [][(hv_pc \in {"count", "scan", "click", "idle"}) =>
          (hv_pc' \in {"count", "scan", "click", "idle", "returned"})]_vars

(***************************************************************************)
(* C12: parse_countdown_text agrees with the reference parser on every     *)
(* text.  The reference: if an H:MM:SS or HH:MM:SS occurs anywhere in the  *)
(* text, h*3600+m*60+s of the occurrence (the leftmost one); otherwise, if *)
(* the text has at least three runs of digits, h*3600+m*60+s of the first  *)
(* three; otherwise, and for an absent or empty text, unknown.             *)
(***************************************************************************)
\* hl digits, ":", two digits, ":", two digits at position i of t
RefStrictAt(t, i, hl) ==
    /\ i + hl + 5 <= Len(t)
    /\ \A k \in 0..(hl - 1) : IsDigit(t[i + k])
    /\ t[i + hl] = ":" /\ t[i + hl + 3] = ":"
    /\ \A k \in {1, 2, 4, 5} : IsDigit(t[i + hl + k])

RefOccurrences(t) ==
    {o \in (1..Len(t)) \X {1, 2} : RefStrictAt(t, o[1], o[2])}

RefFirstOccurrence(t) ==
    CHOOSE o \in RefOccurrences(t) :
        \A o2 \in RefOccurrences(t) :
            o[1] < o2[1] \/ (o[1] = o2[1] /\ o[2] >= o2[2])

RefStrictValue(t, i, hl) ==
    IntOf(t, i, i + hl - 1) * 3600 + IntOf(t, i + hl + 1, i + hl + 2) * 60
        + IntOf(t, i + hl + 4, i + hl + 5)

\* The positions where a maximal run of digits starts, and where it ends.
RefRunStarts(t) ==
    {i \in 1..Len(t) : IsDigit(t[i]) /\ (i = 1 \/ ~IsDigit(t[i - 1]))}

RefRunEnd(t, i) ==
    CHOOSE j \in i..Len(t) :
        /\ \A k \in i..j : IsDigit(t[k])
        /\ j = Len(t) \/ ~IsDigit(t[j + 1])

\* The value of the k-th run of digits of t.
RefRun(t, k) ==
    LET i == CHOOSE x \in RefRunStarts(t) :
                Cardinality({y \in RefRunStarts(t) : y < x}) = k - 1
    IN  IntOf(t, i, RefRunEnd(t, i))

RefParse(t) ==
    IF t = NoText \/ t = <<>> THEN None
    ELSE IF RefOccurrences(t) # {}
    THEN LET o == RefFirstOccurrence(t) IN RefStrictValue(t, o[1], o[2])
    ELSE IF Cardinality(RefRunStarts(t)) >= 3
    THEN RefRun(t, 1) * 3600 + RefRun(t, 2) * 60 + RefRun(t, 3)
    ELSE None

C12_ParserAgrees == pt_pc = "done" => pt_result = RefParse(pt_text)

\* An H:MM:SS that starts after the first character of the text was parsed
\* to its seconds.
C12_Witness ==
    /\ pt_pc = "done"
    /\ pt_text # NoText
    /\ RefOccurrences(pt_text) # {}
    /\ RefFirstOccurrence(pt_text)[1] > 1
    /\ pt_result = RefStrictValue(pt_text, RefFirstOccurrence(pt_text)[1],
                                  RefFirstOccurrence(pt_text)[2])

(***************************************************************************)
(* C13: plant_on_all_empty_slots run twice in immediate succession on a    *)
(* page that did not change (it is, after the second call, as it was       *)
(* before the first), with the same outcome of every click, returns the    *)
(* same count both times.                                                  *)
(***************************************************************************)
C13_SameCountTwice ==
    (/\ so_pc = "returned" /\ so_call = 2
     /\ so_page = so_first.page
     /\ so_seed = so_first.seed
     /\ so_turns = so_first.turns)
        => so_ret = so_first.ret

\* Both calls clicked two plots or more, every click returned, the page
\* planted nothing, and both calls returned the same count above zero.
C13_Witness ==
    /\ so_pc = "returned" /\ so_call = 2
    /\ so_page = so_first.page
    /\ so_seed = "ok" /\ so_first.seed = "ok"
    /\ so_turns = so_first.turns
    /\ so_ret >= 2
    /\ so_ret = so_first.ret

(***************************************************************************)
(* C14: in the Sleep step, when the active task's remaining time exceeds   *)
(* that task's recheck interval, the loop sleeps the recheck interval      *)
(* (time.sleep may overrun it), then probes the countdown of the active    *)
(* task alone and rewrites the active task's due time alone; the sibling's *)
(* due time is the same after the whole step.  When the remaining time     *)
(* does not exceed the interval, neither due time changes.                 *)
(***************************************************************************)
C14_RecheckFrame ==
    [][/\ (pc = "sleep" /\ Remaining > RecheckInterval(task)) =>
             /\ pc' = IF task = "clean" THEN "recheck_clean"
                      ELSE "recheck_brick"
             /\ \E over \in SleepOverruns :
                   clock' = clock + RecheckInterval(task) + over
             /\ UNCHANGED <<next_clean_at, next_brick_at>>
       /\ (pc = "sleep" /\ ~(Remaining > RecheckInterval(task))) =>
             /\ pc' = "loop"
             /\ UNCHANGED <<next_clean_at, next_brick_at>>
       /\ (pc \in {"recheck_clean", "recheck_brick", "post_recheck_clean",
                   "post_recheck_brick"}) =>
             /\ task = "clean" =>
                   /\ next_brick_at' = next_brick_at
                   /\ brick_seconds' = brick_seconds
             /\ task = "brick" =>
                   /\ next_clean_at' = next_clean_at
                   /\ clean_seconds' = clean_seconds
       /\ (pc \in {"post_recheck_clean", "post_recheck_brick"}) =>
             /\ pc' = "loop"
             /\ task = "clean" =>
                   next_clean_at' =
                      clock' + Max(IF clean_seconds = None
                                   THEN DEFAULT_NEXT_INTERVAL_SEC
                                   ELSE clean_seconds,
                                   MIN_WAIT_AFTER_CHECK_SEC)
             /\ task = "brick" =>
                   next_brick_at' =
                      clock' + Max(IF brick_seconds = None
                                   THEN BRICK_DEFAULT_INTERVAL_SEC
                                   ELSE brick_seconds,
                                   MIN_WAIT_AFTER_CHECK_SEC)]_vars

\* The clean task was further away than its recheck interval: the loop has
\* slept the interval, probed the clean countdown alone and rewritten the
\* clean due time; the brick task still waits for its old due time.
C14_Witness ==
    /\ pc = "loop" /\ task = "clean"
    /\ STATUS_RECHECK_INTERVAL_SEC > 0
    /\ clock >= now + STATUS_RECHECK_INTERVAL_SEC
    /\ clean_seconds # None /\ brick_seconds = None
    /\ next_clean_at = clock + Max(clean_seconds, MIN_WAIT_AFTER_CHECK_SEC)
    /\ next_brick_at > now + STATUS_RECHECK_INTERVAL_SEC

(***************************************************************************)
(* C15: a session starts only when the active task's remaining time is     *)
(* <= 0; when it has ended, the run task's due time is recomputed from its *)
(* countdown, and the sibling's due time is rewritten when the session     *)
(* read a known sibling countdown and left as it was when the reading is   *)
(* unknown (no fallback is applied to the sibling).                        *)
(***************************************************************************)
C15_RunFrame ==
    [][/\ (pc' \in RunPcs /\ pc \notin RunPcs) =>
             /\ pc' = IF task' = "clean" THEN "run_clean" ELSE "run_brick"
             /\ (IF task' = "clean" THEN next_clean_at'
                  ELSE next_brick_at') - now' <= 0
       /\ pc = "post_clean" =>
             /\ next_clean_at' =
                   clock' + Max(IF clean_seconds = None
                                THEN DEFAULT_NEXT_INTERVAL_SEC
                                ELSE clean_seconds,
                                MIN_WAIT_AFTER_CHECK_SEC)
             /\ next_brick_at' =
                   IF brick_seconds # None
                   THEN clock' + Max(brick_seconds, MIN_WAIT_AFTER_CHECK_SEC)
                   ELSE next_brick_at
       /\ pc = "post_brick" =>
             /\ next_brick_at' =
                   clock' + Max(IF brick_seconds = None
                                THEN BRICK_DEFAULT_INTERVAL_SEC
                                ELSE brick_seconds,
                                MIN_WAIT_AFTER_CHECK_SEC)
             /\ next_clean_at' =
                   IF clean_seconds # None
                   THEN clock' + Max(clean_seconds, MIN_WAIT_AFTER_CHECK_SEC)
                   ELSE next_clean_at]_vars

\* A brick session ran while the clean task was due too and read no clean
\* countdown: the brick due time is new, the clean due time is the old one.
C15_Witness ==
    /\ pc = "loop" /\ task = "brick"
    /\ clean_seconds = None /\ brick_seconds # None
    /\ clock > now
    /\ next_clean_at <= now
    /\ next_brick_at = clock + Max(brick_seconds, MIN_WAIT_AFTER_CHECK_SEC)

(***************************************************************************)
(* C16: in a cleaning session run_loop is left for the rest of the session *)
(* only by its break at the end of a complete pass, after the button click *)
(* and the drain of that pass; the two final countdowns are read next, and *)
(* browser.close() is called only after both reads: no session that has    *)
(* left the loop closes the browser or returns without them.               *)
(***************************************************************************)
C16_ReadsBeforeClose ==
    [][/\ (cs_pc \in LoopPcs /\ cs_pc' \notin LoopPcs \cup {"crashed"}) =>
             /\ cs_pc = "check" /\ cs_pc' = "read_own"
             /\ cs_done = {"button", "drain"}
             /\ max_runtime_sec > 0 /\ cs_elapsed >= max_runtime_sec
       /\ (cs_pc \in LoopPcs) => (cs_reads' = 0 /\ ~cs_closed')
       /\ (cs_reads' # cs_reads) =>
             (cs_pc \in {"read_own", "read_sibling"} /\ ~cs_closed)
       /\ (cs_closed' /\ ~cs_closed) => (cs_reads = 2 /\ cs_pc' = "returned")
       /\ (cs_pc' = "returned") => (cs_reads' = 2 /\ cs_closed')]_vars

\* A session with a runtime limit has left the loop, read both countdowns
\* and closed its browser.
C16_Witness ==
    /\ cs_pc = "returned"
    /\ max_runtime_sec > 0 /\ cs_elapsed >= max_runtime_sec
    /\ cs_reads = 2 /\ cs_closed

(***************************************************************************)
(* C17: when click_drops returns, the list of drop items is empty,         *)
(* whatever the list was at the call, and also when an item appeared or a  *)
(* click failed during the drain.                                          *)
(***************************************************************************)
C17_DrainedWhenReturned ==
    (cs_pc = "wait") => (cs_list = <<>>)

(***************************************************************************)
(* C18: in click_drops, the pass after a failed click targets another item *)
(* than the one whose click has just failed.                               *)
(***************************************************************************)
C18_FailedItemSkipped ==
    [][(cs_pc = "drop" /\ cs_failed # NoItem /\ cs_i' = cs_i + 1) =>
          (cs_target' # cs_failed)]_vars

(***************************************************************************)
(* C19: harvest_mature_plots attempts exactly one click on each planted    *)
(* entry whose data-harvest-time is present and at or before the current   *)
(* time, and none on any other entry; a failed click does not keep the     *)
(* later ready entries from being clicked.  "The current time" runs from    *)
(* the start of the call to the end of its scan: an entry ready at the     *)
(* start is clicked once, an entry not ready by the end of the scan never. *)
(***************************************************************************)
C19_ReadyClickedOnce ==
    (hv_pc \in {"idle", "returned", "raised"}) =>
        \A i \in 1..MaxPlots :
            LET entry == hv_page0[i]
            IN  /\ hv_attempts[i] <= 1
                /\ (entry.cls = "planted" /\ entry.ht # None
                       /\ entry.ht <= hv_start) => hv_attempts[i] = 1
                /\ (entry.cls # "planted" \/ entry.ht = None
                       \/ entry.ht > hv_clock) => hv_attempts[i] = 0

\* The click on a ready entry failed, a later ready entry was clicked all
\* the same, and a planted entry that is not ready was left alone.
C19_Witness ==
    /\ hv_pc = "returned"
    /\ \E i, j, k \in 1..MaxPlots :
          /\ i < j
          /\ i \in hv_failed /\ hv_attempts[i] = 1
          /\ j \notin hv_failed /\ hv_attempts[j] = 1
          /\ hv_page0[k].cls = "planted" /\ hv_page0[k].ht > hv_clock
          /\ hv_attempts[k] = 0

(***************************************************************************)
(* C20: plant_on_all_empty_slots takes the preferred seed whenever an      *)
(* unlocked preferred card exists and the fallback seed only when none     *)
(* does; it clicks no plot when there is no unlocked seed or the seed      *)
(* click fails; otherwise it visits each plot of the initially empty set   *)
(* once, skips exactly the plots that are planted at their turn, and       *)
(* returns the number of plots it clicked with success, which is at most   *)
(* the size of the initially empty set.                                    *)
(***************************************************************************)
C20_PlantEmpty ==
    (so_pc = "returned") =>
        LET E == {i \in 1..MaxSlots : so_start[i] = "empty"}
            seedless == ~so_seeds.preferred /\ ~so_seeds.fallback
        IN  /\ (E # {} /\ so_seeds.preferred) => so_which = "preferred"
            /\ (E # {} /\ ~so_seeds.preferred /\ so_seeds.fallback) =>
                  so_which = "fallback"
            /\ (so_which = "fallback") => ~so_seeds.preferred
            /\ (E = {} \/ seedless \/ so_seed = "failed") =>
                  /\ \A i \in 1..MaxSlots : so_turns[i] = <<>>
                  /\ so_ret = 0
            /\ (E # {} /\ ~seedless /\ so_seed # "failed") =>
                  /\ so_seed = "ok"
                  /\ \A i \in E :
                        /\ Len(so_turns[i]) = 1
                        /\ so_turns[i] = <<"skipped">> <=>
                              so_sight[i] = "planted"
                  /\ \A i \in (1..MaxSlots) \ E : so_turns[i] = <<>>
                  /\ so_ret = Cardinality({i \in E : so_turns[i] = <<"ok">>})
                  /\ so_ret <= Cardinality(E)

\* With the preferred seed locked the fallback seed was taken; of the
\* empty plots one was planted by its turn and skipped, one was clicked
\* with success and one click failed: the call returned 1.
C20_Witness ==
    /\ so_pc = "returned"
    /\ so_which = "fallback" /\ so_seed = "ok"
    /\ \E i, j, k \in 1..MaxSlots :
          /\ so_turns[i] = <<"skipped">>
          /\ so_turns[j] = <<"ok">>
          /\ so_turns[k] = <<"failed">>
    /\ so_ret = 1

(***************************************************************************)
(* C21: in scheduler_loop a session of a task starts (its iteration finds  *)
(* remaining <= 0) at least MIN_WAIT_AFTER_CHECK_SEC after the last        *)
(* session of the same task returned, whatever was read and whichever      *)
(* sibling sessions and rechecks came in between.                          *)
(***************************************************************************)
C21_FloorBetweenSessions ==
    (Mowan /\ pc \in RunPcs /\ ended_at[KindOf(pc)] # None) =>
        /\ now >= ended_at[KindOf(pc)] + MIN_WAIT_AFTER_CHECK_SEC
        /\ clock >= now

\* A second clean session starts exactly MIN_WAIT_AFTER_CHECK_SEC after the
\* first returned, a brick session having run in between.
C21_Witness ==
    /\ pc = "run_clean" /\ sp = "launched"
    /\ ended_at["clean"] # None
    /\ ended_at["brick"] # None /\ ended_at["brick"] > ended_at["clean"]
    /\ now = ended_at["clean"] + MIN_WAIT_AFTER_CHECK_SEC

(***************************************************************************)
(* C22: run_loop with a maximum runtime of B seconds terminates for every  *)
(* B >= 0, B = 0 included: as long as its page operations return, the      *)
(* session leaves the loop.                                                *)
(***************************************************************************)
C22_RunLoopTerminates == <>(cs_pc \notin LoopPcs)

(***************************************************************************)
(* C23: in autoPlant.py the wait run_once returns is at least              *)
(* max(MIN_WAKE_INTERVAL_SEC, next_ts - now) when get_next_harvest_ts      *)
(* returned a future time next_ts, and exactly FALLBACK_INTERVAL_SEC when  *)
(* it returned none; after an exception of run_once the wait is 60 s; and  *)
(* loop_smart sleeps that wait, so that it wakes neither before next_ts    *)
(* nor MIN_WAKE_INTERVAL_SEC after the schedule was computed.              *)
(***************************************************************************)
C23_WaitOfRunOnce ==
    (Plant /\ pc = "p_sleep") =>
        IF exc # "none" THEN wait_sec = EXCEPT_WAIT_SEC
        ELSE IF next_ts # 0
             THEN wait_sec * 1000 >=
                     Max(MIN_WAKE_INTERVAL_SEC * 1000, next_ts * 1000 - now_ms)
             ELSE wait_sec = FALLBACK_INTERVAL_SEC

C23_SleepOfLoopSmart ==
    (Plant /\ pc = "p_sleep") =>
        /\ clock' = clock + wait_sec
        /\ (exc = "none" /\ next_ts # 0) => clock' >= next_ts

C23_WakeSchedule == []C23_WaitOfRunOnce /\ [][C23_SleepOfLoopSmart]_vars

\* run_once returned a wait above the floor for a harvest time still ahead,
\* computed part-way through a second, so that int(delay_ms / 1000) cut it.
C23_Witness ==
    /\ Plant /\ pc = "p_sleep" /\ exc = "none"
    /\ next_ts # 0
    /\ next_ts * 1000 - now_ms > MIN_WAKE_INTERVAL_SEC * 1000
    /\ now_ms % 1000 # 0
    /\ wait_sec * 1000 < next_ts * 1000 - now_ms - SAFETY_BUFFER_SEC * 1000

====
